---- MODULE Spec2Model ----
(***************************************************************************)
(* Panchang range scraper (src/api/app.py, src/app.py).                    *)
(*                                                                         *)
(* Text is a sequence of one-character strings, a calendar date a record   *)
(* [y, m, d], a parsed document a sequence of nodes in document order.     *)
(***************************************************************************)
EXTENDS Integers, Sequences, FiniteSets, TLC

(* ------------------------------------------------------------------ *)
(* Bounds                                                             *)
(* ------------------------------------------------------------------ *)

\* Longest range (in days) a modelled request may cover.
MaxDays == 3

(* ------------------------------------------------------------------ *)
(* Text                                                               *)
(* ------------------------------------------------------------------ *)

Digits == {"0", "1", "2", "3", "4", "5", "6", "7", "8", "9"}

NonZeroDigits == Digits \ {"0"}

DigitVal(c) ==
    CASE c = "0" -> 0 [] c = "1" -> 1 [] c = "2" -> 2 [] c = "3" -> 3
      [] c = "4" -> 4 [] c = "5" -> 5 [] c = "6" -> 6 [] c = "7" -> 7
      [] c = "8" -> 8 [] c = "9" -> 9

DigitChar(n) ==
    CASE n = 0 -> "0" [] n = 1 -> "1" [] n = 2 -> "2" [] n = 3 -> "3"
      [] n = 4 -> "4" [] n = 5 -> "5" [] n = 6 -> "6" [] n = 7 -> "7"
      [] n = 8 -> "8" [] n = 9 -> "9"

\* str.lower() on one character.
LowerChar(c) ==
    CASE c = "A" -> "a" [] c = "B" -> "b" [] c = "C" -> "c" [] c = "D" -> "d"
      [] c = "E" -> "e" [] c = "F" -> "f" [] c = "G" -> "g" [] c = "H" -> "h"
      [] c = "I" -> "i" [] c = "J" -> "j" [] c = "K" -> "k" [] c = "L" -> "l"
      [] c = "M" -> "m" [] c = "N" -> "n" [] c = "O" -> "o" [] c = "P" -> "p"
      [] c = "Q" -> "q" [] c = "R" -> "r" [] c = "S" -> "s" [] c = "T" -> "t"
      [] c = "U" -> "u" [] c = "V" -> "v" [] c = "W" -> "w" [] c = "X" -> "x"
      [] c = "Y" -> "y" [] c = "Z" -> "z" [] OTHER -> c

Lower(s) == [i \in 1..Len(s) |-> LowerChar(s[i])]

Whitespace == {" ", "\n", "\t"}

RECURSIVE LStrip(_)
LStrip(s) == IF s # <<>> /\ Head(s) \in Whitespace THEN LStrip(Tail(s)) ELSE s

RECURSIVE RStrip(_)
RStrip(s) ==
    IF s # <<>> /\ s[Len(s)] \in Whitespace
    THEN RStrip(SubSeq(s, 1, Len(s) - 1))
    ELSE s

\* str.strip()
Strip(s) == RStrip(LStrip(s))

\* ' '.join(parts)
RECURSIVE JoinSpace(_)
JoinSpace(parts) ==
    IF parts = <<>> THEN <<>>
    ELSE IF Len(parts) = 1 THEN parts[1]
    ELSE parts[1] \o <<" ">> \o JoinSpace(Tail(parts))

\* sub in s
Contains(sub, s) ==
    \E k \in 0..(Len(s) - Len(sub)) :
        \A i \in 1..Len(sub) : s[k + i] = sub[i]

\* The character at position i, or "" past the end of the text.
CharAt(s, i) == IF i >= 1 /\ i <= Len(s) THEN s[i] ELSE ""

(* ------------------------------------------------------------------ *)
(* Calendar dates                                                     *)
(* ------------------------------------------------------------------ *)

IsLeap(y) == (y % 4 = 0) /\ ((y % 100 # 0) \/ (y % 400 = 0))

DaysInMonth(y, m) ==
    IF m = 2 THEN (IF IsLeap(y) THEN 29 ELSE 28)
    ELSE IF m \in {4, 6, 9, 11} THEN 30 ELSE 31

Date(y, m, d) == [y |-> y, m |-> m, d |-> d]

\* datetime.date.max
DateMax == Date(9999, 12, 31)

\* d1 <= d2 on dates
DateLE(d1, d2) ==
    \/ d1.y < d2.y
    \/ d1.y = d2.y /\ d1.m < d2.m
    \/ d1.y = d2.y /\ d1.m = d2.m /\ d1.d <= d2.d

\* Variant of NextDay that takes every month to have 30 days.
NextDayOff(dt) ==
    IF dt.d < 30 THEN Date(dt.y, dt.m, dt.d + 1)
    ELSE IF dt.m < 12 THEN Date(dt.y, dt.m + 1, 1)
    ELSE Date(dt.y + 1, 1, 1)

\* date + timedelta(days=1), for date < date.max
NextDay(dt) ==
    IF dt.d < DaysInMonth(dt.y, dt.m) THEN Date(dt.y, dt.m, dt.d + 1)
    ELSE IF dt.m < 12 THEN Date(dt.y, dt.m + 1, 1)
    ELSE Date(dt.y + 1, 1, 1)

\* Two-digit, zero-padded decimal (%d, %m).
Pad2(n) == <<DigitChar(n \div 10), DigitChar(n % 10)>>

\* Decimal digits of n >= 0 without padding (%Y as the C library prints it).
RECURSIVE DecStr(_)
DecStr(n) == IF n < 10 THEN <<DigitChar(n)>> ELSE DecStr(n \div 10) \o <<DigitChar(n % 10)>>

\* date.strftime('%Y-%m-%d')
StrftimeIso(dt) == DecStr(dt.y) \o <<"-">> \o Pad2(dt.m) \o <<"-">> \o Pad2(dt.d)

\* date.strftime('%d/%m/%Y')
StrftimeUrl(dt) == Pad2(dt.d) \o <<"/">> \o Pad2(dt.m) \o <<"/">> \o DecStr(dt.y)

NoDate == Date(0, 0, 0)

ParseFail == [ok |-> FALSE, date |-> NoDate]

\* The month group (1[0-2]|0[1-9]|[1-9]) at position p, followed by "-":
\* <<month, position after the "-">>, or <<0, 0>>.
MatchMonth(s, p) ==
    IF CharAt(s, p) = "1" /\ CharAt(s, p + 1) \in {"0", "1", "2"} /\ CharAt(s, p + 2) = "-"
    THEN <<10 + DigitVal(s[p + 1]), p + 3>>
    ELSE IF CharAt(s, p) = "0" /\ CharAt(s, p + 1) \in NonZeroDigits /\ CharAt(s, p + 2) = "-"
    THEN <<DigitVal(s[p + 1]), p + 3>>
    ELSE IF CharAt(s, p) \in NonZeroDigits /\ CharAt(s, p + 1) = "-"
    THEN <<DigitVal(s[p]), p + 2>>
    ELSE <<0, 0>>

\* The day group (3[0-1]|[1-2]\d|0[1-9]|[1-9]| [1-9]) at position p:
\* <<day, position after it>>, or <<0, 0>>.
MatchDay(s, p) ==
    IF CharAt(s, p) = "3" /\ CharAt(s, p + 1) \in {"0", "1"}
    THEN <<30 + DigitVal(s[p + 1]), p + 2>>
    ELSE IF CharAt(s, p) \in {"1", "2"} /\ CharAt(s, p + 1) \in Digits
    THEN <<10 * DigitVal(s[p]) + DigitVal(s[p + 1]), p + 2>>
    ELSE IF CharAt(s, p) = "0" /\ CharAt(s, p + 1) \in NonZeroDigits
    THEN <<DigitVal(s[p + 1]), p + 2>>
    ELSE IF CharAt(s, p) \in NonZeroDigits
    THEN <<DigitVal(s[p]), p + 1>>
    ELSE IF CharAt(s, p) = " " /\ CharAt(s, p + 1) \in NonZeroDigits
    THEN <<DigitVal(s[p + 1]), p + 2>>
    ELSE <<0, 0>>

\* Variant of Strptime that accepts text after the day.
StrptimeLoose(s) ==
    IF ~(\A i \in 1..4 : CharAt(s, i) \in Digits) \/ CharAt(s, 5) # "-"
    THEN ParseFail
    ELSE
      LET y  == 1000 * DigitVal(s[1]) + 100 * DigitVal(s[2]) + 10 * DigitVal(s[3]) + DigitVal(s[4])
          mm == MatchMonth(s, 6)
          dd == MatchDay(s, mm[2])
      IN  IF mm[1] = 0 \/ dd[1] = 0 THEN ParseFail          \* does not match format
          ELSE IF y < 1 THEN ParseFail                       \* year 0 is out of range
          ELSE IF dd[1] > DaysInMonth(y, mm[1]) THEN ParseFail   \* day is out of range for month
          ELSE [ok |-> TRUE, date |-> Date(y, mm[1], dd[1])]

\* datetime.strptime(s, '%Y-%m-%d').date(); ok = FALSE stands for ValueError.
Strptime(s) ==
    IF ~(\A i \in 1..4 : CharAt(s, i) \in Digits) \/ CharAt(s, 5) # "-"
    THEN ParseFail
    ELSE
      LET y  == 1000 * DigitVal(s[1]) + 100 * DigitVal(s[2]) + 10 * DigitVal(s[3]) + DigitVal(s[4])
          mm == MatchMonth(s, 6)
          dd == MatchDay(s, mm[2])
      IN  IF mm[1] = 0 \/ dd[1] = 0 THEN ParseFail          \* does not match format
          ELSE IF dd[2] # Len(s) + 1 THEN ParseFail          \* unconverted data remains
          ELSE IF y < 1 THEN ParseFail                       \* year 0 is out of range
          ELSE IF dd[1] > DaysInMonth(y, mm[1]) THEN ParseFail   \* day is out of range for month
          ELSE [ok |-> TRUE, date |-> Date(y, mm[1], dd[1])]

(* ------------------------------------------------------------------ *)
(* Parsed documents                                                   *)
(* ------------------------------------------------------------------ *)

\* A document is the sequence of its nodes in document order; a node names its
\* parent by position, 0 for the top level of the soup.
Tag(name, classes, parent) ==
    [kind |-> "tag", name |-> name, classes |-> classes, parent |-> parent, text |-> <<>>]

Txt(chars, parent) ==
    [kind |-> "text", name |-> "", classes |-> {}, parent |-> parent, text |-> chars]

Positions(doc) == [i \in 1..Len(doc) |-> i]

\* A div carrying the class.
IsDivWith(doc, i, cls) ==
    doc[i].kind = "tag" /\ doc[i].name = "div" /\ cls \in doc[i].classes

\* Node j lies below element e (the soup itself is element 0).
RECURSIVE IsInside(_, _, _)
IsInside(doc, j, e) ==
    IF e = 0 THEN TRUE
    ELSE IF doc[j].parent = 0 THEN FALSE
    ELSE IF doc[j].parent = e THEN TRUE
    ELSE IsInside(doc, doc[j].parent, e)

\* e.find_all('div', class_=cls): positions, in document order.
FindAll(doc, e, cls) ==
    SelectSeq(Positions(doc), LAMBDA j : IsDivWith(doc, j, cls) /\ IsInside(doc, j, e))

\* e.find('div', class_=cls): a position, or 0 for None.
Find(doc, e, cls) ==
    LET all == FindAll(doc, e, cls) IN IF all = <<>> THEN 0 ELSE all[1]

\* e.find_parent('div'): the nearest enclosing div, or 0 for None.
RECURSIVE FindParentDiv(_, _)
FindParentDiv(doc, i) ==
    LET p == doc[i].parent
    IN  IF p = 0 THEN 0
        ELSE IF doc[p].kind = "tag" /\ doc[p].name = "div" THEN p
        ELSE FindParentDiv(doc, p)

Children(doc, e) == SelectSeq(Positions(doc), LAMBDA j : doc[j].parent = e)

NoString == [some |-> FALSE, text |-> <<>>]

\* Tag.string: the text of a single text child, through single-child tags.
RECURSIVE StringOf(_, _)
StringOf(doc, e) ==
    LET kids == Children(doc, e)
    IN  IF Len(kids) # 1 THEN NoString
        ELSE IF doc[kids[1]].kind = "text" THEN [some |-> TRUE, text |-> doc[kids[1]].text]
        ELSE StringOf(doc, kids[1])

\* soup.find('div', class_='dpTableKey', string=text)
FindKeyWithString(doc, text) ==
    LET hits == SelectSeq(FindAll(doc, 0, "dpTableKey"),
                          LAMBDA j : StringOf(doc, j) = [some |-> TRUE, text |-> text])
    IN  IF hits = <<>> THEN 0 ELSE hits[1]

\* list(e.stripped_strings)
StrippedStrings(doc, e) ==
    LET texts == SelectSeq(Positions(doc),
                           LAMBDA j : doc[j].kind = "text" /\ IsInside(doc, j, e)
                                      /\ Strip(doc[j].text) # <<>>)
    IN  [k \in 1..Len(texts) |-> Strip(doc[texts[k]].text)]

\* ' '.join(e.stripped_strings).strip()
ElementText(doc, e) == Strip(JoinSpace(StrippedStrings(doc, e)))

\* e.find_next_sibling('div', class_='dpTableValue'): a position, or 0.
FindNextSibling(doc, i) ==
    LET sibs == SelectSeq(Positions(doc),
                          LAMBDA j : j > i /\ doc[j].parent = doc[i].parent
                                     /\ IsDivWith(doc, j, "dpTableValue"))
    IN  IF sibs = <<>> THEN 0 ELSE sibs[1]

(* ------------------------------------------------------------------ *)
(* scrape_panchang_for_day: anchor resolution and field extraction    *)
(* ------------------------------------------------------------------ *)

Sunrise == <<"S", "u", "n", "r", "i", "s", "e">>
Sunset == <<"S", "u", "n", "s", "e", "t">>
Tithi == <<"T", "i", "t", "h", "i">>
Nakshatra == <<"N", "a", "k", "s", "h", "a", "t", "r", "a">>
Yoga == <<"Y", "o", "g", "a">>
Karana == <<"K", "a", "r", "a", "n", "a">>

NotFound == <<"N", "o", "t", " ", "F", "o", "u", "n", "d">>

\* The threshold of the fallback walk.
MinKeys == 5

KeyCount(doc, e) == Len(FindAll(doc, e, "dpTableKey"))

\* Variant of WalkUp that accepts a div holding any label.
RECURSIVE WalkUpAny(_, _)
WalkUpAny(doc, cur) ==
    IF cur = 0 THEN 0
    ELSE IF KeyCount(doc, cur) >= 1 THEN cur
    ELSE WalkUpAny(doc, FindParentDiv(doc, cur))

\* The while loop over current_parent: the first div, from cur upward, holding
\* at least MinKeys label elements; 0 when the chain ends without one.
RECURSIVE WalkUp(_, _)
WalkUp(doc, cur) ==
    IF cur = 0 THEN 0
    ELSE IF KeyCount(doc, cur) >= MinKeys THEN cur
    ELSE WalkUp(doc, FindParentDiv(doc, cur))

\* The fallback for a document without div.dpPanchangCard.
FallbackAnchor(doc) ==
    LET sunrise_key_element == FindKeyWithString(doc, Sunrise)
    IN  IF sunrise_key_element = 0 THEN 0
        ELSE LET found == WalkUp(doc, FindParentDiv(doc, sunrise_key_element))
             IN  IF found # 0 THEN found
                 ELSE FindParentDiv(doc, sunrise_key_element)

\* Variant of PanchangCard that prefers the "Sunrise" fallback to the card.
PanchangCardSunriseFirst(doc) ==
    IF FallbackAnchor(doc) # 0 THEN FallbackAnchor(doc)
    ELSE Find(doc, 0, "dpPanchangCard")

\* panchang_card after all attempts: a position, or 0 when none was identified
\* (the final check then ends the scrape with None).
PanchangCard(doc) ==
    LET panchang_card == Find(doc, 0, "dpPanchangCard")
    IN  IF panchang_card # 0 THEN panchang_card ELSE FallbackAnchor(doc)

\* Variant of ScanKeys that passes over a matching label without a value.
RECURSIVE ScanKeysSkipping(_, _, _, _)
ScanKeysSkipping(doc, key_elements, key_name, k) ==
    IF k > Len(key_elements) THEN NotFound
    ELSE IF Contains(Lower(key_name), Lower(ElementText(doc, key_elements[k])))
            /\ FindNextSibling(doc, key_elements[k]) # 0
    THEN ElementText(doc, FindNextSibling(doc, key_elements[k]))
    ELSE ScanKeysSkipping(doc, key_elements, key_name, k + 1)

\* The loop of get_value_from_table over key_elements, from the k-th on.
RECURSIVE ScanKeys(_, _, _, _)
ScanKeys(doc, key_elements, key_name, k) ==
    IF k > Len(key_elements) THEN NotFound
    ELSE IF Contains(Lower(key_name), Lower(ElementText(doc, key_elements[k])))
    THEN LET value_element == FindNextSibling(doc, key_elements[k])
         IN  IF value_element # 0 THEN ElementText(doc, value_element) ELSE NotFound
    ELSE ScanKeys(doc, key_elements, key_name, k + 1)

get_value_from_table(doc, panchang_card, key_name) ==
    ScanKeys(doc, FindAll(doc, panchang_card, "dpTableKey"), key_name, 1)

None == [none |-> TRUE]

\* Python truthiness of a scrape result: None is false, a record is true.
Truthy(x) == "none" \notin DOMAIN x

\* Variant of Extract that gives None as soon as one field is "Not Found".
ExtractStrict(doc, date_obj) ==
    LET panchang_card == PanchangCard(doc)
        data == [date      |-> StrftimeIso(date_obj),
                 sunrise   |-> get_value_from_table(doc, panchang_card, Sunrise),
                 sunset    |-> get_value_from_table(doc, panchang_card, Sunset),
                 tithi     |-> get_value_from_table(doc, panchang_card, Tithi),
                 nakshatra |-> get_value_from_table(doc, panchang_card, Nakshatra),
                 yoga      |-> get_value_from_table(doc, panchang_card, Yoga),
                 karana    |-> get_value_from_table(doc, panchang_card, Karana)]
    IN  IF panchang_card = 0 THEN None
        ELSE IF NotFound \in {data.sunrise, data.sunset, data.tithi,
                              data.nakshatra, data.yoga, data.karana} THEN None
        ELSE data

\* The parse-and-extract part of scrape_panchang_for_day on a fetched document.
Extract(doc, date_obj) ==
    LET panchang_card == PanchangCard(doc)
    IN  IF panchang_card = 0 THEN None
        ELSE [date      |-> StrftimeIso(date_obj),
              sunrise   |-> get_value_from_table(doc, panchang_card, Sunrise),
              sunset    |-> get_value_from_table(doc, panchang_card, Sunset),
              tithi     |-> get_value_from_table(doc, panchang_card, Tithi),
              nakshatra |-> get_value_from_table(doc, panchang_card, Nakshatra),
              yoga      |-> get_value_from_table(doc, panchang_card, Yoga),
              karana    |-> get_value_from_table(doc, panchang_card, Karana)]

(* ------------------------------------------------------------------ *)
(* Documents the site may answer with (response.text, parsed)         *)
(* ------------------------------------------------------------------ *)

\* Fragments are node sequences whose top-level nodes have parent 0.
Shift(frag, k) ==
    [i \in 1..Len(frag) |->
        IF frag[i].parent = 0 THEN frag[i] ELSE [frag[i] EXCEPT !.parent = @ + k]]

Cat(f, g) == f \o Shift(g, Len(f))

RECURSIVE CatAll(_)
CatAll(frags) == IF frags = <<>> THEN <<>> ELSE Cat(Head(frags), CatAll(Tail(frags)))

Nest(root, body) ==
    <<root>> \o [i \in 1..Len(body) |-> [body[i] EXCEPT !.parent = @ + 1]]

KeyCell(label) == Nest(Tag("div", {"dpTableCell", "dpTableKey"}, 0), <<Txt(label, 0)>>)

\* <div class="dpTableKey"><span>label</span></div>
KeySpanCell(label) ==
    Nest(Tag("div", {"dpTableCell", "dpTableKey"}, 0),
         Nest(Tag("span", {}, 0), <<Txt(label, 0)>>))

ValueCell(value) == Nest(Tag("div", {"dpTableCell", "dpTableValue"}, 0), <<Txt(value, 0)>>)

Pair(label, value) == Cat(KeyCell(label), ValueCell(value))

Row(body) == Nest(Tag("div", {"dpTableRow"}, 0), body)

Card(body) == Nest(Tag("div", {"dpPanchangCard"}, 0), body)

Box(body) == Nest(Tag("div", {}, 0), body)

Section(body) == Nest(Tag("section", {}, 0), body)

Labels == <<Sunrise, Sunset, Tithi, Nakshatra, Yoga, Karana>>

V_Sunrise == <<"0", "6", ":", "1", "2">>
V_Sunset == <<"1", "8", ":", "4", "0">>
V_Tithi == <<"N", "a", "v", "a", "m", "i">>
V_Nakshatra == <<"R", "o", "h", "i", "n", "i">>
V_Yoga == <<"S", "i", "d", "d", "h", "a">>
V_Karana == <<"B", "a", "v", "a">>
V_Tithi2 == <<"D", "a", "s", "h", "a", "m", "i">>
V_Anandadi == <<"K", "a", "n", "a">>
V_Moonrise == <<"2", "1", ":", "0", "5">>
V_Padded == <<" ", "0", "6", ":", "1", "2", "\n">>
L_SunrisePadded == <<"\n", " ", "S", "u", "n", "r", "i", "s", "e", " ">>
L_SunriseUpper == <<"S", "U", "N", "R", "I", "S", "E">>
L_Sun == <<"S", "u", "n">>
L_Rise == <<"r", "i", "s", "e">>
L_AnandadiYoga == <<"A", "n", "a", "n", "d", "a", "d", "i", " ", "Y", "o", "g", "a">>
L_Moonrise == <<"M", "o", "o", "n", "r", "i", "s", "e">>
Blank == <<"\n", " ", " ">>

Values == <<V_Sunrise, V_Sunset, V_Tithi, V_Nakshatra, V_Yoga, V_Karana>>

\* The cells of field f: label and value, or the label alone when f = missing.
Cells(f, missing) ==
    IF f = missing THEN KeyCell(Labels[f]) ELSE Pair(Labels[f], Values[f])

\* The six fields with Tithi (field 3) moved to position p.
Order(p) == SubSeq(<<1, 2, 4, 5, 6>>, 1, p - 1) \o <<3>> \o SubSeq(<<1, 2, 4, 5, 6>>, p, 5)

\* "rows": one row div per field; "flat": all cells siblings;
\* "pairs": two fields per row div.
TableBody(layout, order, missing) ==
    IF layout = "rows"
    THEN CatAll([k \in 1..Len(order) |-> Row(Cells(order[k], missing))])
    ELSE IF layout = "flat"
    THEN CatAll([k \in 1..Len(order) |-> Cells(order[k], missing)])
    ELSE CatAll([k \in 1..(Len(order) \div 2) |->
                    Row(Cat(Cells(order[2 * k - 1], missing), Cells(order[2 * k], missing)))])

Layouts == <<"rows", "flat", "pairs">>

\* Cards with every field in place, one per layout.
CompleteCards == [l \in 1..3 |-> Card(TableBody(Layouts[l], Order(3), 0))]

\* Cards whose Tithi label has no value cell, per layout and Tithi position.
TithiGapCards ==
    [n \in 1..18 |-> Card(TableBody(Layouts[((n - 1) \div 6) + 1], Order(((n - 1) % 6) + 1), 3))]

\* No card; the Sunrise label sits in a span, its row holds one label, the inner
\* box all six.
NestedFallbackDoc ==
    Box(Box(Cat(Row(Cat(KeySpanCell(Sunrise), ValueCell(V_Sunrise))),
                TableBody("rows", <<2, 3, 4, 5, 6>>, 0))))

\* No card; exactly five labels under the box.
FiveLabelDoc == Box(TableBody("rows", <<1, 2, 3, 4, 5>>, 0))

\* No card; four labels under the box, so no ancestor reaches the threshold.
FourLabelDoc == Box(TableBody("rows", <<1, 2, 3, 4>>, 0))

\* No card and no label whose string is exactly "Sunrise".
NoAnchorDoc ==
    Box(Cat(Row(Pair(L_SunrisePadded, V_Sunrise)), TableBody("rows", <<2, 3, 4, 5, 6>>, 0)))

\* No card; the labels are not inside any div.
NoDivDoc == Section(TableBody("flat", <<1, 2, 3, 4, 5, 6>>, 0))

\* A complete block of six rows, then a card holding a single label.
SmallCardDoc ==
    Cat(Box(TableBody("rows", <<1, 2, 3, 4, 5, 6>>, 0)), Card(Row(Pair(Tithi, V_Tithi))))

\* Repeated and overlapping labels, upper case, padded values, blank text nodes.
RepeatedLabelDoc ==
    Card(CatAll(<<Row(KeyCell(Tithi)),
                  Row(Pair(Tithi, V_Tithi2)),
                  Row(Pair(L_AnandadiYoga, V_Anandadi)),
                  Row(Pair(Yoga, V_Yoga)),
                  Row(CatAll(<<KeyCell(L_SunriseUpper), <<Txt(Blank, 0)>>, ValueCell(V_Padded)>>)),
                  Row(Pair(L_Moonrise, V_Moonrise)),
                  Row(Pair(Sunset, V_Sunset))>>))

\* A label split over two spans: its text joins as "Sun rise".
SplitLabelDoc ==
    Card(Cat(Row(Cat(Nest(Tag("div", {"dpTableKey"}, 0),
                          CatAll(<<<<Txt(Blank, 0)>>,
                                   Nest(Tag("span", {}, 0), <<Txt(L_Sun, 0)>>),
                                   Nest(Tag("span", {}, 0), <<Txt(L_Rise, 0)>>)>>)),
                     ValueCell(V_Sunrise))),
             TableBody("pairs", <<2, 3, 4, 5>>, 0)))

EmptyDoc == <<>>

Documents ==
    CompleteCards \o TithiGapCards
    \o <<NestedFallbackDoc, FiveLabelDoc, FourLabelDoc, NoAnchorDoc, NoDivDoc,
         SmallCardDoc, RepeatedLabelDoc, SplitLabelDoc, EmptyDoc>>

\* The documents the range loop is exercised with.
RangeDocuments == <<CompleteCards[1], TithiGapCards[3], NoAnchorDoc, NoDivDoc>>

(* ------------------------------------------------------------------ *)
(* The /panchang request: get_panchang                                *)
(* ------------------------------------------------------------------ *)

VARIABLES
    pc,                 \* "idle", "loop", "scrape", "done", "crashed"; "fetched", "scraped"
    args,               \* request.args of the request handled
    start_date,         \* parsed start_date
    end_date,           \* parsed end_date
    current_date,       \* the loop's date
    all_panchang_data,  \* the entries appended so far
    fetched,            \* the date of every URL requests.get was called with, in call order
    response,           \* what the last requests.get produced
    panchang_card,      \* the anchor the last scrape settled on, 0 for none
    day_data,           \* the last result of scrape_panchang_for_day
    status              \* HTTP status of the response sent, 0 while none is

vars == <<pc, args, start_date, end_date, current_date, all_panchang_data,
          fetched, response, panchang_card, day_data, status>>

\* A query parameter: absent (args.get gives None) or a text.
Absent == [given |-> FALSE, text |-> <<>>]

Given(text) == [given |-> TRUE, text |-> text]

DateStrings ==
    { <<"2", "0", "2", "4", "-", "0", "2", "-", "2", "8">>,
      <<"2", "0", "2", "4", "-", "0", "2", "-", "2", "9">>,
      <<"2", "0", "2", "4", "-", "0", "3", "-", "0", "1">>,
      <<"2", "0", "2", "4", "-", "2", "-", "2", "9">>,
      <<"2", "0", "2", "4", "-", "0", "3", "-", " ", "1">>,
      <<"2", "0", "2", "3", "-", "0", "2", "-", "2", "8">>,
      <<"2", "0", "2", "3", "-", "0", "2", "-", "2", "9">>,
      <<"2", "0", "2", "3", "-", "0", "3", "-", "0", "1">>,
      <<"2", "0", "2", "3", "-", "1", "2", "-", "3", "1">>,
      <<"2", "0", "2", "4", "-", "0", "1", "-", "0", "1">>,
      <<"1", "0", "0", "0", "-", "0", "1", "-", "0", "1">>,
      <<"0", "9", "9", "9", "-", "1", "2", "-", "3", "1">>,
      <<"9", "9", "9", "9", "-", "1", "2", "-", "3", "0">>,
      <<"9", "9", "9", "9", "-", "1", "2", "-", "3", "1">>,
      <<"2", "0", "2", "4", "/", "0", "2", "/", "2", "8">>,
      <<"2", "8", "-", "0", "2", "-", "2", "0", "2", "4">>,
      <<"2", "0", "2", "4", "-", "0", "2", "-", "2", "8", "T">>,
      <<"0", "0", "0", "0", "-", "0", "1", "-", "0", "1">>,
      <<>> }

DateParams == {Absent} \cup {Given(t) : t \in DateStrings}

LocationParams == {Absent, Given(<<>>), Given(<<"D", "e", "l", "h", "i">>)}

Requests == [start_date : DateParams, end_date : DateParams, location : LocationParams]

NoRequest == [start_date |-> Absent, end_date |-> Absent, location |-> Absent]

\* Python truthiness of args.get(...): None and '' are false.
ParamTruthy(p) == p.given /\ p.text # <<>>

\* all([start_date_str, end_date_str, location])
AllGiven(a) ==
    ParamTruthy(a.start_date) /\ ParamTruthy(a.end_date) /\ ParamTruthy(a.location)

\* date.toordinal(): days since 0001-01-01, that day being 1.
DaysBeforeYear(y) == (y - 1) * 365 + ((y - 1) \div 4) - ((y - 1) \div 100) + ((y - 1) \div 400)

RECURSIVE DaysBeforeMonth(_, _)
DaysBeforeMonth(y, m) ==
    IF m = 1 THEN 0 ELSE DaysBeforeMonth(y, m - 1) + DaysInMonth(y, m - 1)

Ordinal(dt) == DaysBeforeYear(dt.y) + DaysBeforeMonth(dt.y, dt.m) + dt.d

\* The requests the model follows: ranges of at most MaxDays days.
WithinBound(from, to) == Ordinal(to) - Ordinal(from) + 1 <= MaxDays

\* What requests.get / raise_for_status / BeautifulSoup produce for one day.
FailureKinds == {"connection_error", "timeout", "http_error", "unexpected_error"}

NoResponse == [kind |-> "none", body |-> <<>>]

Failures == {[kind |-> k, body |-> <<>>] : k \in FailureKinds}

Fetched(doc) == [kind |-> "ok", body |-> doc]

RangeResponses == Failures \cup {Fetched(RangeDocuments[i]) : i \in 1..Len(RangeDocuments)}

\* scrape_panchang_for_day: None from either except clause, else the extraction.
ScrapeResult(resp, date_obj) ==
    IF resp.kind = "ok" THEN Extract(resp.body, date_obj) ELSE None

AnchorOf(resp) == IF resp.kind = "ok" THEN PanchangCard(resp.body) ELSE 0

ErrorText == "Failed to retrieve complete data for this day. Check backend logs for details."

ErrorEntry(date_obj) == [date |-> StrftimeIso(date_obj), error |-> ErrorText]

\* The entry the loop appends for a day.
EntryFor(data, date_obj) == IF Truthy(data) THEN data ELSE ErrorEntry(date_obj)

Init ==
    /\ pc = "idle"
    /\ args = NoRequest
    /\ start_date = NoDate
    /\ end_date = NoDate
    /\ current_date = NoDate
    /\ all_panchang_data = <<>>
    /\ fetched = <<>>
    /\ response = NoResponse
    /\ panchang_card = 0
    /\ day_data = None
    /\ status = 0

\* A parameter is missing or empty: 400.
RejectMissing ==
    /\ pc = "idle"
    /\ \E a \in Requests :
        /\ ~AllGiven(a)
        /\ args' = a
    /\ status' = 400
    /\ pc' = "done"
    /\ UNCHANGED <<start_date, end_date, current_date, all_panchang_data, fetched,
                   response, panchang_card, day_data>>

\* strptime raises ValueError on either date: 400.
RejectFormat ==
    /\ pc = "idle"
    /\ \E a \in Requests :
        /\ AllGiven(a)
        /\ ~Strptime(a.start_date.text).ok \/ ~Strptime(a.end_date.text).ok
        /\ args' = a
    /\ status' = 400
    /\ pc' = "done"
    /\ UNCHANGED <<start_date, end_date, current_date, all_panchang_data, fetched,
                   response, panchang_card, day_data>>

\* Both dates parse: the loop starts at start_date.
StartRange ==
    /\ pc = "idle"
    /\ \E a \in Requests :
        /\ AllGiven(a)
        /\ Strptime(a.start_date.text).ok /\ Strptime(a.end_date.text).ok
        /\ WithinBound(Strptime(a.start_date.text).date, Strptime(a.end_date.text).date)
        /\ args' = a
        /\ start_date' = Strptime(a.start_date.text).date
        /\ end_date' = Strptime(a.end_date.text).date
        /\ current_date' = Strptime(a.start_date.text).date
    /\ all_panchang_data' = <<>>
    /\ pc' = "loop"
    /\ UNCHANGED <<fetched, response, panchang_card, day_data, status>>

\* while current_date <= end_date: the day's requests.get is issued and answered.
IssueFetch ==
    /\ pc = "loop"
    /\ DateLE(current_date, end_date)
    /\ fetched' = Append(fetched, StrftimeUrl(current_date))
    /\ \E r \in RangeResponses : response' = r
    /\ pc' = "scrape"
    /\ UNCHANGED <<args, start_date, end_date, current_date, all_panchang_data,
                   panchang_card, day_data, status>>

\* The rest of scrape_panchang_for_day and the append of the day's entry.
ScrapeAndAppend ==
    /\ day_data' = ScrapeResult(response, current_date)
    /\ panchang_card' = AnchorOf(response)
    /\ all_panchang_data' =
           Append(all_panchang_data, EntryFor(ScrapeResult(response, current_date), current_date))

\* Variant of AppendAndAdvance that fetches a failed day again.
AppendAndAdvanceRetrying ==
    /\ pc = "scrape"
    /\ current_date # DateMax
    /\ IF Truthy(ScrapeResult(response, current_date))
       THEN ScrapeAndAppend /\ current_date' = NextDay(current_date)
       ELSE UNCHANGED <<day_data, panchang_card, all_panchang_data, current_date>>
    /\ pc' = "loop"
    /\ UNCHANGED <<args, start_date, end_date, fetched, response, status>>

\* Variant of AppendAndAdvance that lets a failed day end the request.
AppendAndAdvanceAborting ==
    /\ pc = "scrape"
    /\ current_date # DateMax
    /\ IF Truthy(ScrapeResult(response, current_date))
       THEN ScrapeAndAppend /\ current_date' = NextDay(current_date)
              /\ pc' = "loop" /\ status' = status
       ELSE /\ UNCHANGED <<day_data, panchang_card, all_panchang_data, current_date>>
            /\ pc' = "crashed" /\ status' = 500
    /\ UNCHANGED <<args, start_date, end_date, fetched, response>>

\* A day's entry is appended and current_date moves on one day.
AppendAndAdvance ==
    /\ pc = "scrape"
    /\ current_date # DateMax
    /\ ScrapeAndAppend
    /\ current_date' = NextDay(current_date)
    /\ pc' = "loop"
    /\ UNCHANGED <<args, start_date, end_date, fetched, response, status>>

\* On date.max the entry is appended, then current_date += timedelta(days=1)
\* raises OverflowError, which nothing catches: the request ends in a 500.
AppendAndOverflow ==
    /\ pc = "scrape"
    /\ current_date = DateMax
    /\ ScrapeAndAppend
    /\ pc' = "crashed"
    /\ status' = 500
    /\ UNCHANGED <<args, start_date, end_date, current_date, fetched, response>>

\* current_date > end_date: jsonify({"panchang": all_panchang_data}), 200.
ReturnPanchang ==
    /\ pc = "loop"
    /\ ~DateLE(current_date, end_date)
    /\ status' = 200
    /\ pc' = "done"
    /\ UNCHANGED <<args, start_date, end_date, current_date, all_panchang_data, fetched,
                   response, panchang_card, day_data>>

Next ==
    \/ RejectMissing
    \/ RejectFormat
    \/ StartRange
    \/ IssueFetch
    \/ AppendAndAdvance
    \/ AppendAndOverflow
    \/ ReturnPanchang

Spec == Init /\ [][Next]_vars

(* ------------------------------------------------------------------ *)
(* One call of scrape_panchang_for_day on any answer                  *)
(* ------------------------------------------------------------------ *)

ScrapeDates == {Date(2024, 2, 29), Date(999, 12, 31), Date(9999, 12, 31)}

ScrapeResponses == Failures \cup {Fetched(Documents[i]) : i \in 1..Len(Documents)}

\* requests.get has answered for date_obj; nothing is extracted yet.
ScrapeInit ==
    /\ pc = "fetched"
    /\ args = NoRequest
    /\ start_date = NoDate
    /\ end_date = NoDate
    /\ current_date \in ScrapeDates
    /\ all_panchang_data = <<>>
    /\ fetched = <<StrftimeUrl(current_date)>>
    /\ response \in ScrapeResponses
    /\ panchang_card = 0
    /\ day_data = None
    /\ status = 0

\* The anchor is resolved, the six fields extracted, the day's entry appended.
ScrapeDay ==
    /\ pc = "fetched"
    /\ ScrapeAndAppend
    /\ pc' = "scraped"
    /\ UNCHANGED <<args, start_date, end_date, current_date, fetched, response, status>>

ScrapeNext == ScrapeDay

ScrapeSpec == ScrapeInit /\ [][ScrapeNext]_vars

(* ------------------------------------------------------------------ *)
(* Vocabulary of the properties                                       *)
(* ------------------------------------------------------------------ *)

Min(S) == CHOOSE x \in S : \A y \in S : x <= y

Max(S) == CHOOSE x \in S : \A y \in S : x >= y

\* The pieces of s between occurrences of sep.
RECURSIVE SplitOn(_, _)
SplitOn(s, sep) ==
    IF \A i \in 1..Len(s) : s[i] # sep THEN <<s>>
    ELSE LET k == Min({i \in 1..Len(s) : s[i] = sep})
         IN  <<SubSeq(s, 1, k - 1)>> \o SplitOn(SubSeq(s, k + 1, Len(s)), sep)

AllDigits(s) == s # <<>> /\ \A i \in 1..Len(s) : s[i] \in Digits

\* The number a run of decimal digits writes.
RECURSIVE NumVal(_)
NumVal(s) == IF s = <<>> THEN 0 ELSE 10 * NumVal(SubSeq(s, 1, Len(s) - 1)) + DigitVal(s[Len(s)])

\* The date a year-month-day text names, read piece by piece.
DecodeIso(s) ==
    LET parts == SplitOn(s, "-")
    IN  Date(NumVal(parts[1]), NumVal(parts[2]), NumVal(LStrip(parts[3])))

\* The date a day/month/year text names.
DecodeUrl(s) ==
    LET parts == SplitOn(s, "/")
    IN  Date(NumVal(parts[3]), NumVal(parts[2]), NumVal(parts[1]))

\* Exactly dddd-dd-dd.
StrictIsoForm(s) ==
    /\ Len(s) = 10
    /\ \A i \in {1, 2, 3, 4, 6, 7, 9, 10} : s[i] \in Digits
    /\ s[5] = "-" /\ s[8] = "-"

\* A four-digit year from 1 on, a month and a day of one or two digits (the day
\* also as a space and a digit), joined by "-", naming a day of the calendar.
LenientIsoForm(s) ==
    LET parts == SplitOn(s, "-")
    IN  /\ Len(parts) = 3
        /\ Len(parts[1]) = 4 /\ AllDigits(parts[1]) /\ NumVal(parts[1]) >= 1
        /\ Len(parts[2]) \in {1, 2} /\ AllDigits(parts[2]) /\ NumVal(parts[2]) \in 1..12
        /\ \/ Len(parts[3]) \in {1, 2} /\ AllDigits(parts[3])
           \/ Len(parts[3]) = 2 /\ parts[3][1] = " " /\ parts[3][2] \in Digits
        /\ NumVal(LStrip(parts[3])) \in 1..DaysInMonth(NumVal(parts[1]), NumVal(parts[2]))

ParamMissing(p) == ~p.given \/ p.text = <<>>

AnyParamMissing ==
    ParamMissing(args.start_date) \/ ParamMissing(args.end_date) \/ ParamMissing(args.location)

Handled == pc \in {"loop", "scrape", "done", "crashed"}

RequestedStart == DecodeIso(args.start_date.text)

RequestedEnd == DecodeIso(args.end_date.text)

\* The inclusive day count of the requested range, 0 for an inverted one.
RequestedDays ==
    IF Ordinal(RequestedStart) <= Ordinal(RequestedEnd)
    THEN Ordinal(RequestedEnd) - Ordinal(RequestedStart) + 1
    ELSE 0

IsErrorEntry(e) == DOMAIN e = {"date", "error"}

IsRecordEntry(e) ==
    DOMAIN e = {"date", "sunrise", "sunset", "tithi", "nakshatra", "yoga", "karana"}

Field(e, f) ==
    CASE f = 1 -> e.sunrise [] f = 2 -> e.sunset [] f = 3 -> e.tithi
      [] f = 4 -> e.nakshatra [] f = 5 -> e.yoga [] f = 6 -> e.karana

Nodes(doc) == 1..Len(doc)

Cards(doc) == {i \in Nodes(doc) : IsDivWith(doc, i, "dpPanchangCard")}

IsLabel(doc, i) == IsDivWith(doc, i, "dpTableKey")

\* The label elements whose string is exactly "Sunrise".
SunriseLabels(doc) ==
    {i \in Nodes(doc) : IsLabel(doc, i) /\ StringOf(doc, i) = [some |-> TRUE, text |-> Sunrise]}

DivAncestors(doc, i) ==
    {a \in Nodes(doc) : doc[a].kind = "tag" /\ doc[a].name = "div" /\ a # i /\ IsInside(doc, i, a)}

LabelsIn(doc, a) == {j \in Nodes(doc) : IsLabel(doc, j) /\ IsInside(doc, j, a)}

\* The div ancestors of label i that hold at least five labels.
BigAncestors(doc, i) == {a \in DivAncestors(doc, i) : Cardinality(LabelsIn(doc, a)) >= 5}

\* Anchor resolution has nothing to offer: no card, and no "Sunrise" label or
\* the first one outside every div.
NoAnchor(doc) ==
    /\ Cards(doc) = {}
    /\ \/ SunriseLabels(doc) = {}
       \/ DivAncestors(doc, Min(SunriseLabels(doc))) = {}

\* The labels of anchor a whose normalized text contains key f.
Matching(doc, a, f) ==
    {j \in LabelsIn(doc, a) : Contains(Lower(Labels[f]), Lower(Strip(ElementText(doc, j))))}

\* The value elements after label j among its siblings.
ValuesAfter(doc, j) ==
    {k \in Nodes(doc) : k > j /\ doc[k].parent = doc[j].parent /\ IsDivWith(doc, k, "dpTableValue")}

\* The element right after label j among its siblings, 0 for none.
NextElement(doc, j) ==
    LET later == {k \in Nodes(doc) : k > j /\ doc[k].parent = doc[j].parent /\ doc[k].kind = "tag"}
    IN  IF later = {} THEN 0 ELSE Min(later)

HasAdjacentValue(doc, j) ==
    NextElement(doc, j) # 0 /\ IsDivWith(doc, NextElement(doc, j), "dpTableValue")

Scraped == pc = "scraped" /\ response.kind = "ok"

(* ------------------------------------------------------------------ *)
(* Properties                                                         *)
(* ------------------------------------------------------------------ *)

\* C1: the list the range loop builds and returns has one entry per day of
\* [startDate, endDate], none for an inverted range, and its i-th entry carries
\* startDate + i days.
C1_OneEntryPerDay ==
    /\ Handled /\ status # 400 =>
          \A i \in 1..Len(all_panchang_data) :
              Ordinal(DecodeIso(all_panchang_data[i].date)) = Ordinal(RequestedStart) + i - 1
    /\ (status = 200 \/ pc = "crashed") => Len(all_panchang_data) = RequestedDays

C1_Witness ==
    /\ status = 200
    /\ Len(all_panchang_data) = 2
    /\ DecodeIso(all_panchang_data[1].date).m # DecodeIso(all_panchang_data[2].date).m

\* C2: a day that fails (transport error, timeout, bad HTTP status, unexpected
\* exception, no anchor) gets an error entry with its date, and the loop goes on
\* to the next day of the range.
DayFails(resp) == resp.kind \in FailureKinds \/ (resp.kind = "ok" /\ NoAnchor(resp.body))

C2_FailureAbsorbed ==
    [][ (pc = "scrape" /\ DayFails(response)) =>
            /\ Len(all_panchang_data') = Len(all_panchang_data) + 1
            /\ SubSeq(all_panchang_data', 1, Len(all_panchang_data)) = all_panchang_data
            /\ IsErrorEntry(all_panchang_data'[Len(all_panchang_data')])
            /\ DecodeIso(all_panchang_data'[Len(all_panchang_data')].date) = current_date
            /\ current_date # DateMax => pc' = "loop"
            /\ current_date # end_date =>
                  /\ Ordinal(current_date') = Ordinal(current_date) + 1
                  /\ DateLE(current_date', end_date) ]_vars

C2_Witness ==
    /\ status = 200
    /\ Len(all_panchang_data) = 2
    /\ IsErrorEntry(all_panchang_data[1])
    /\ IsRecordEntry(all_panchang_data[2])

\* C5 as stated: a request lacking a parameter, or with a date not written
\* dddd-dd-dd, ends in 400 without any fetch or entry.
C5_Original ==
    (Handled /\ (AnyParamMissing \/ ~StrictIsoForm(args.start_date.text)
                               \/ ~StrictIsoForm(args.end_date.text))) =>
        status = 400 /\ fetched = <<>> /\ all_panchang_data = <<>>

\* C5 as amended: a request lacking a parameter, or with a date that is not a
\* four-digit year, a one- or two-digit month and a one- or two-digit day of the
\* calendar joined by "-", ends in 400 without any fetch or entry.
C5_Rejected ==
    (Handled /\ (AnyParamMissing \/ ~LenientIsoForm(args.start_date.text)
                               \/ ~LenientIsoForm(args.end_date.text))) =>
        pc = "done" /\ status = 400 /\ fetched = <<>> /\ all_panchang_data = <<>>

C5_Witness ==
    /\ Handled
    /\ ~AnyParamMissing
    /\ StrictIsoForm(args.start_date.text) /\ LenientIsoForm(args.start_date.text)
    /\ ~LenientIsoForm(args.end_date.text)
    /\ status = 400 /\ fetched = <<>>

\* C6: one fetch per day in ascending date order, never a second one for a
\* day, and the entry of a day is appended before the next day is fetched.
C6_Sequential ==
    /\ \A i \in 1..Len(fetched) :
          Handled => Ordinal(DecodeUrl(fetched[i])) = Ordinal(RequestedStart) + i - 1
    /\ Handled => Len(fetched) = Len(all_panchang_data) + (IF pc = "scrape" THEN 1 ELSE 0)
    /\ status = 200 => Len(fetched) = RequestedDays

C6_Witness ==
    /\ pc = "scrape"
    /\ Len(fetched) = 2
    /\ Len(all_panchang_data) = 1
    /\ IsErrorEntry(all_panchang_data[1])

\* C7: a well-formed request with startDate <= endDate ends in a success
\* response carrying one entry per day, never in an unhandled error.
C7_Original ==
    (pc \in {"done", "crashed"} /\ ~AnyParamMissing
        /\ LenientIsoForm(args.start_date.text) /\ LenientIsoForm(args.end_date.text)
        /\ Ordinal(RequestedStart) <= Ordinal(RequestedEnd)) =>
            status = 200 /\ Len(all_panchang_data) = RequestedDays

C4_Original ==
    (Scraped /\ panchang_card # 0
        /\ (\A f \in 1..6 : Cardinality(Matching(response.body, panchang_card, f)) = 1)
        /\ (\A f \in 1..6 :
               HasAdjacentValue(response.body, Min(Matching(response.body, panchang_card, f)))
                   <=> f # 3)) =>
        /\ IsRecordEntry(day_data)
        /\ day_data.tithi = NotFound
        /\ \A f \in {1, 2, 4, 5, 6} :
               Field(day_data, f) =
                   ElementText(response.body,
                               NextElement(response.body,
                                           Min(Matching(response.body, panchang_card, f))))

C9_Original ==
    (Scraped /\ panchang_card # 0) =>
        Cardinality(LabelsIn(response.body, panchang_card)) >= 5

\* C9 as amended: an anchor with fewer than five labels is either the card or
\* the nearest div of the first "Sunrise" label in a document where no div
\* around that label holds five; the ancestor walk accepts no smaller anchor.
C9_SmallAnchorOnlyFirstOrLastTier ==
    (Scraped /\ panchang_card # 0
        /\ Cardinality(LabelsIn(response.body, panchang_card)) < 5) =>
        \/ panchang_card \in Cards(response.body)
        \/ /\ SunriseLabels(response.body) # {}
           /\ BigAncestors(response.body, Min(SunriseLabels(response.body))) = {}
           /\ panchang_card = Max(DivAncestors(response.body, Min(SunriseLabels(response.body))))

C9_Witness ==
    /\ Scraped
    /\ Cards(response.body) = {}
    /\ panchang_card # 0
    /\ Cardinality(LabelsIn(response.body, panchang_card)) < 5

====
